---- MODULE Spec2Model ----
(***************************************************************************)
(* Model of the pyroscope analytics service (package analytics) and of    *)
(* the storage calls it uses (Storage.SaveAnalytics / ReadAnalytics).     *)
(*                                                                         *)
(* Two goroutines are modelled: the one running Service.Start and the one *)
(* calling Service.Stop.  Every blocking or externally visible statement  *)
(* of either is one action, so that the interleavings Go allows between   *)
(* them are the interleavings of the model.                               *)
(***************************************************************************)
EXTENDS Integers, Sequences, FiniteSets, TLC

\* ------------------------------------------------------------------ bounds
MaxEnv == 1
MaxCnt == 1
MaxUploads == 1
MaxRuns == 2

\* ------------------------------------------------------- storage.Analytics
\* A nil *Analytics, a key with no value, and a call that panicked.
Nil == [nil |-> TRUE]
Absent == [absent |-> TRUE]
Panicked == [panic |-> TRUE]

\* The fields of storage.Analytics, in declaration order.
FieldNames ==
  << "InstallID", "RunID", "Version", "Timestamp", "UploadIndex",
     "GOOS", "GOARCH", "GoVersion",
     "MemAlloc", "MemTotalAlloc", "MemSys", "MemNumGC",
     "BadgerMain", "BadgerTrees", "BadgerDicts", "BadgerDimensions",
     "BadgerSegments",
     "ControllerIndex", "ControllerComparison", "ControllerDiff",
     "ControllerIngest", "ControllerRender",
     "SpyRbspy", "SpyPyspy", "SpyGospy", "SpyEbpfspy", "SpyPhpspy",
     "SpyDotnetspy", "SpyJavaspy", "AppsCount" >>

FieldSet == { FieldNames[i] : i \in 1..Len(FieldNames) }

\* The fields carrying the struct tag type:"counter".
CounterFields ==
  { "BadgerMain", "BadgerTrees", "BadgerDicts", "BadgerDimensions",
    "BadgerSegments" }

GaugeFields == FieldSet \ CounterFields

\* The counter fields of a snapshot.
Counters(a) == [ f \in CounterFields |-> a[f] ]

\* Tag.Lookup("type") of a field: <<value, ok>>.
TagLookup(f) == IF f \in CounterFields THEN << "counter", TRUE >>
                ELSE << "", FALSE >>

\* The json key of each field (the json:"..." tag).
JsonKey(f) ==
  CASE f = "InstallID" -> "install_id"
    [] f = "RunID" -> "run_id"
    [] f = "Version" -> "version"
    [] f = "Timestamp" -> "timestamp"
    [] f = "UploadIndex" -> "upload_index"
    [] f = "GOOS" -> "goos"
    [] f = "GOARCH" -> "goarch"
    [] f = "GoVersion" -> "go_version"
    [] f = "MemAlloc" -> "mem_alloc"
    [] f = "MemTotalAlloc" -> "mem_total_alloc"
    [] f = "MemSys" -> "mem_sys"
    [] f = "MemNumGC" -> "mem_num_gc"
    [] f = "BadgerMain" -> "badger_main"
    [] f = "BadgerTrees" -> "badger_trees"
    [] f = "BadgerDicts" -> "badger_dicts"
    [] f = "BadgerDimensions" -> "badger_dimensions"
    [] f = "BadgerSegments" -> "badger_segments"
    [] f = "ControllerIndex" -> "controller_index"
    [] f = "ControllerComparison" -> "controller_comparison"
    [] f = "ControllerDiff" -> "controller_diff"
    [] f = "ControllerIngest" -> "controller_ingest"
    [] f = "ControllerRender" -> "controller_render"
    [] f = "SpyRbspy" -> "spy_rbspy"
    [] f = "SpyPyspy" -> "spy_pyspy"
    [] f = "SpyGospy" -> "spy_gospy"
    [] f = "SpyEbpfspy" -> "spy_ebpfspy"
    [] f = "SpyPhpspy" -> "spy_phpspy"
    [] f = "SpyDotnetspy" -> "spy_dotnetspy"
    [] f = "SpyJavaspy" -> "spy_javaspy"
    [] f = "AppsCount" -> "apps_count"

JsonKeys == { JsonKey(f) : f \in FieldSet }

FieldOfKey(k) == CHOOSE f \in FieldSet : JsonKey(f) = k

\* A time.Time: the wall-clock instant and whether the value still carries
\* the monotonic reading time.Now() attaches.
ZeroTime == [wall |-> 0, mono |-> FALSE]

\* storage.Analytics{}: the zero value of the struct.
ZeroAnalytics ==
  [ f \in FieldSet |->
      IF f \in {"InstallID", "RunID", "Version", "GOOS", "GOARCH", "GoVersion"}
      THEN ""
      ELSE IF f = "Timestamp" THEN ZeroTime ELSE 0 ]

\* json.Marshal(a): an object keyed by the json tags; a time.Time is written
\* as its instant only (the monotonic reading is not part of the encoding).
jsonMarshal(a) ==
  [ k \in JsonKeys |->
      IF k = "timestamp" THEN a["Timestamp"].wall ELSE a[FieldOfKey(k)] ]

\* json.Unmarshal(val, &a) into a zero Analytics.
jsonUnmarshal(v) ==
  [ f \in FieldSet |->
      IF f = "Timestamp" THEN [wall |-> v[JsonKey(f)], mono |-> FALSE]
      ELSE v[JsonKey(f)] ]

\* ------------------------------------------------------------ environment
\* What one call of getAnalytics observes outside the service: the storage's
\* disk usage and install id, the stats provider, the runtime's memory
\* statistics, a fresh uuid and the clock.  Sample v is a server that has
\* done v units of work; distinct fields get distinct values.
Env(v) ==
  [ installID |-> "install-1",
    runID     |-> IF v = 0 THEN "run-a" ELSE "run-b",
    version   |-> "v0",
    now       |-> v + 1,
    ms        |-> [Alloc |-> v + 1, TotalAlloc |-> v + 2, Sys |-> v + 3,
                   NumGC |-> v],
    du        |-> [main |-> v, trees |-> 2 * v, dicts |-> 3 * v,
                   dimensions |-> 4 * v, segments |-> 5 * v],
    stats     |-> [index |-> v, comparison |-> v + 1, diff |-> v + 2,
                   ingest |-> 7 * v, render |-> v + 3,
                   rbspy |-> v, pyspy |-> 2 * v, gospy |-> 3 * v,
                   ebpfspy |-> 0, phpspy |-> 0, dotnetspy |-> 0,
                   javaspy |-> v],
    apps      |-> v ]

EnvSamples == { Env(v) : v \in 0..MaxEnv }

\* Service.getAnalytics, given what it observes (e) and s.uploads.
getAnalytics(e, uploads) ==
  [ InstallID            |-> e.installID,
    RunID                |-> e.runID,
    Version              |-> e.version,
    Timestamp            |-> [wall |-> e.now, mono |-> TRUE],
    UploadIndex          |-> uploads,
    GOOS                 |-> "linux",
    GOARCH               |-> "amd64",
    GoVersion            |-> "go1",
    MemAlloc             |-> e.ms.Alloc,
    MemTotalAlloc        |-> e.ms.TotalAlloc,
    MemSys               |-> e.ms.Sys,
    MemNumGC             |-> e.ms.NumGC,
    BadgerMain           |-> e.du.main,
    BadgerTrees          |-> e.du.trees,
    BadgerDicts          |-> e.du.dicts,
    BadgerDimensions     |-> e.du.dimensions,
    BadgerSegments       |-> e.du.segments,
    ControllerIndex      |-> e.stats.index,
    ControllerComparison |-> e.stats.comparison,
    ControllerDiff       |-> e.stats.diff,
    ControllerIngest     |-> e.stats.ingest,
    ControllerRender     |-> e.stats.render,
    SpyRbspy             |-> e.stats.rbspy,
    SpyPyspy             |-> e.stats.pyspy,
    SpyGospy             |-> e.stats.gospy,
    SpyEbpfspy           |-> e.stats.ebpfspy,
    SpyPhpspy            |-> e.stats.phpspy,
    SpyDotnetspy         |-> e.stats.dotnetspy,
    SpyJavaspy           |-> e.stats.javaspy,
    AppsCount            |-> e.apps ]

\* ---------------------------------------------------------- mergeAnalytics
\* reflect: bs.Type() is the struct type itself, so inside the loop
\* fieldtype.Name() is the type's name and fieldtype.Kind() is Struct,
\* whatever the index i.
StructTypeName == "Analytics"
\* The Kind of an int field: what the switch would see if it looked at the
\* field instead of the struct type.
FieldKindInt == "int"

StructTypeKind == "struct"
IntKinds == { "int", "int8", "int16", "int32", "int64" }

\* Value.FieldByName(name): the field's value, or the zero Value ("invalid")
\* when the struct has no field of that name.
FieldByName(a, name) == IF name \in FieldSet THEN a[name] ELSE "invalid"

\* One iteration of the loop of mergeAnalytics for the field at index i.
\* ret is reflect.ValueOf(retv), a copy of retv: nothing the loop does
\* reaches retv.  The SetInt branch is taken only for an integer Kind.
MergeStep(retv, bs, cu, i) ==
  LET field        == bs[FieldNames[i]]
      fieldCurrent == FieldByName(cu, StructTypeName)
      fieldRet     == FieldByName(retv, StructTypeName)
      tag          == TagLookup(FieldNames[i])
  IN  IF tag[2] /\ tag[1] = "counter" /\ StructTypeKind \in IntKinds
      THEN Panicked     \* SetInt on the zero Value
      ELSE retv

RECURSIVE MergeLoop(_, _, _, _)
MergeLoop(retv, bs, cu, i) ==
  IF i > Len(FieldNames) \/ retv = Panicked THEN retv
  ELSE MergeLoop(MergeStep(retv, bs, cu, i), bs, cu, i + 1)

\* Service.mergeAnalytics(baseline, current): the returned *retv.
mergeAnalytics(baseline, current) ==
  MergeLoop(ZeroAnalytics, baseline, current, 1)


\* ------------------------------------------------------------------- state
VARIABLES
  store,            \* the value under the key "analytics" in s.main, or Absent
  uploads,          \* Service.uploads
  baseline,         \* Service.baseline: Nil or an Analytics
  stopClosed,       \* Service.stop has been closed
  doneClosed,       \* Service.done has been closed
  pcStart,          \* position of the goroutine running Start
  pcStop,           \* position of the goroutine calling Stop
  resp,             \* sendReport: what httpClient.Post returned ("none" outside the call)
  m,                \* Start's goroutine: the local m (after the merge)
  cur,              \* Start's goroutine: what getAnalytics returned this cycle
  stopM,            \* Stop's goroutine: what getAnalytics returned
  tickersOn,        \* ticker and snapshot have been created
  posts,            \* POST requests issued by this process
  crashed,          \* the process died of an unrecovered panic
  run,              \* which process (1 = first start on this storage)
  stopAt,           \* history: the controller's state when Stop was invoked
  graceStop,        \* history: Start returned from the grace-period select
  writesSinceStop,  \* history: SaveAnalytics calls completed since Stop was invoked (2 = two or more)
  lateCycle,        \* history: a loop cycle began after Stop's SaveAnalytics returned
  lateStart,        \* history: Start began after Stop had closed s.stop
  prevBaseline,     \* history: the counter fields of the previous process's baseline (Nil once dropped)
  prevStopM,        \* history: the counter fields of the snapshot the previous process's Stop built
  mB, mC, mRet, mPc \* a direct call mergeAnalytics(mB, mC) and its result

vars ==
  << store, uploads, baseline, stopClosed, doneClosed, pcStart, pcStop, m, cur,
     stopM, tickersOn, posts,
     crashed, run, stopAt, graceStop, writesSinceStop, lateCycle,
     prevBaseline, prevStopM, resp, lateStart, mB, mC, mRet, mPc >>

serviceVars ==
  << store, uploads, baseline, stopClosed, doneClosed, pcStart, pcStop, m, cur,
     stopM, tickersOn, posts,
     crashed, run, stopAt, graceStop, writesSinceStop, lateCycle,
     prevBaseline, prevStopM, resp, lateStart >>

mergeVars == << mB, mC, mRet, mPc >>

\* --------------------------------------------------------------- storage
\* Storage.SaveAnalytics(a): the bytes put under "analytics" (the errors of
\* Marshal and Update are dropped by the code; the write is taken to succeed).
SaveAnalytics(a) == jsonMarshal(a)

\* Storage.ReadAnalytics when the key holds v.
ReadAnalytics(v) == jsonUnmarshal(v)

\* What the storage can hold when a process starts: nothing, or what an
\* earlier process left there (a zero merge result or a snapshot).
InitStores ==
  { Absent, SaveAnalytics(ZeroAnalytics) }
    \cup { SaveAnalytics(getAnalytics(e, 0)) : e \in EnvSamples }

\* --------------------------------------------------------------- NewService
NewService ==
  /\ uploads = 0
  /\ baseline = Nil
  /\ stopClosed = FALSE
  /\ doneClosed = FALSE

Init ==
  /\ store \in InitStores
  /\ NewService
  /\ pcStart = "init" /\ pcStop = "idle"
  /\ m = Nil /\ cur = Nil /\ stopM = Nil
  /\ tickersOn = FALSE
  /\ posts = 0 /\ crashed = FALSE /\ run = 1
  /\ stopAt = "none" /\ graceStop = FALSE /\ writesSinceStop = 0
  /\ lateCycle = FALSE
  /\ prevBaseline = Nil /\ prevStopM = Nil
  /\ resp = "none" /\ lateStart = FALSE
  /\ mB = ZeroAnalytics /\ mC = ZeroAnalytics /\ mRet = Nil /\ mPc = "off"

\* The controller's state in the words of the lifecycle (Idle,
\* AwaitingGrace, Running, Stopped), read off Start's position.
Phase ==
  IF pcStart = "init" THEN "Idle"
  ELSE IF pcStart = "grace" THEN "AwaitingGrace"
  ELSE IF pcStart = "returned" THEN "Stopped"
  ELSE "Running"

\* Start's goroutine is inside a build/merge/upload or build/merge/persist cycle.
LoopCycleActive == pcStart \in {"sr_post", "sr_resp", "snap_save"}

\* Stop's goroutine is inside its build/persist cycle.
StopCycleActive == pcStop = "save"

CountWrite == IF stopAt = "none" THEN 0
              ELSE IF writesSinceStop < 2 THEN writesSinceStop + 1 ELSE 2

StopSaved == pcStop \in {"close", "wait", "returned"}


\* ------------------------------------------------------------ Service.Start
histUnchanged == UNCHANGED << run, stopAt, prevBaseline, prevStopM >>

\* The record of the previous process is dropped once the new process has
\* loaded its baseline and leaves the grace-period select.
prevDropped ==
  /\ prevBaseline' = Nil /\ prevStopM' = Nil
  /\ UNCHANGED << run, stopAt >>

\* Start, line 77-78 with the key present: s.baseline = s.s.ReadAnalytics(),
\* then the grace timer is created.
StartRead ==
  /\ ~crashed /\ pcStart = "init" /\ store # Absent
  /\ baseline' = ReadAnalytics(store)
  /\ pcStart' = "grace"
  /\ UNCHANGED << store, uploads, stopClosed, doneClosed, pcStop, m, cur, stopM,
                  tickersOn, posts,
                  crashed, graceStop, writesSinceStop, lateCycle >>
  /\ histUnchanged /\ UNCHANGED mergeVars
  /\ lateStart' = stopClosed
  /\ UNCHANGED resp

\* Start, line 77 with no value under the key: txn.Get returns a nil item and
\* ReadAnalytics calls v.Value on it.  What that call does is decided by the
\* badger library: either it fails softly and the zero Analytics is returned,
\* or it dereferences the nil item and the process dies of the panic.
StartReadAbsent ==
  /\ ~crashed /\ pcStart = "init" /\ store = Absent
  /\ \E outcome \in {"zero", "panic"} :
       IF outcome = "zero"
       THEN /\ baseline' = ZeroAnalytics
            /\ pcStart' = "grace"
            /\ crashed' = FALSE
       ELSE /\ baseline' = baseline
            /\ pcStart' = "panicked"
            /\ crashed' = TRUE
  /\ UNCHANGED << store, uploads, stopClosed, doneClosed, pcStop, m, cur, stopM,
                  tickersOn, posts,
                  graceStop, writesSinceStop, lateCycle >>
  /\ histUnchanged /\ UNCHANGED mergeVars
  /\ lateStart' = stopClosed
  /\ UNCHANGED resp

\* StartReturn without the deferred close(s.done).
StartReturnNoClose ==
  /\ pcStart' = "returned"
  /\ doneClosed' = doneClosed
  /\ tickersOn' = FALSE

\* Start's return: the deferred ticker.Stop() (when the ticker exists) and
\* close(s.done).
StartReturn ==
  /\ pcStart' = "returned"
  /\ doneClosed' = TRUE
  /\ tickersOn' = FALSE

\* GraceStop without the return of line 81: the stop case falls through to
\* the first sendReport.
GraceStopFallsThrough ==
  /\ ~crashed /\ pcStart = "grace" /\ stopClosed
  /\ pcStart' = "sr_build"
  /\ graceStop' = TRUE
  /\ UNCHANGED << store, uploads, baseline, stopClosed, doneClosed, tickersOn,
                  pcStop, m, cur, stopM, posts, crashed, writesSinceStop,
                  lateCycle >>
  /\ prevDropped /\ UNCHANGED mergeVars
  /\ UNCHANGED << resp, lateStart >>

\* Start, line 80-81: the first select takes <-s.stop and Start returns.
GraceStop ==
  /\ ~crashed /\ pcStart = "grace" /\ stopClosed
  /\ StartReturn
  /\ graceStop' = TRUE
  /\ UNCHANGED << store, uploads, baseline, stopClosed, pcStop, m, cur, stopM,
                  posts, crashed,
                  writesSinceStop, lateCycle >>
  /\ prevDropped /\ UNCHANGED mergeVars
  /\ UNCHANGED << resp, lateStart >>

\* GraceTimer without the first sendReport of line 84: the tickers are created
\* and the loop entered at once.
GraceTimerSkipsReport ==
  /\ ~crashed /\ pcStart = "grace"
  /\ pcStart' = "loop"
  /\ tickersOn' = TRUE
  /\ UNCHANGED << store, uploads, baseline, stopClosed, doneClosed, pcStop, m,
                  cur, stopM, posts, crashed, graceStop, writesSinceStop,
                  lateCycle >>
  /\ prevDropped /\ UNCHANGED mergeVars
  /\ UNCHANGED << resp, lateStart >>

\* Start, line 82-84: the grace timer fires and the first select takes
\* <-timer.C; sendReport is called.  A select with several ready cases takes
\* any of them, so this is possible after close(s.stop) as well.
GraceTimer ==
  /\ ~crashed /\ pcStart = "grace"
  /\ pcStart' = "sr_build"
  /\ UNCHANGED << store, uploads, baseline, stopClosed, doneClosed, pcStop, m,
                  cur, stopM, tickersOn, posts,
                  crashed, graceStop, writesSinceStop, lateCycle >>
  /\ prevDropped /\ UNCHANGED mergeVars
  /\ UNCHANGED << resp, lateStart >>

\* Where sendReport returns to: line 85-86 creates the two tickers after the
\* first report; every later report returns into the loop.
SendReportReturn ==
  /\ pcStart' = "loop"
  /\ tickersOn' = TRUE
  /\ m' = Nil /\ cur' = Nil

\* sendReport, line 176-183: build, merge, json.Marshal.  A Marshal error
\* returns before any request is made.
SendReportBuild ==
  /\ ~crashed /\ pcStart = "sr_build"
  /\ \E e \in EnvSamples, marshalErr \in BOOLEAN :
       LET c == getAnalytics(e, uploads)
           r == mergeAnalytics(baseline, c)
       IN  IF r = Panicked
           THEN /\ crashed' = TRUE /\ pcStart' = "panicked"
                /\ m' = m /\ cur' = c /\ tickersOn' = tickersOn
           ELSE IF marshalErr
           THEN /\ SendReportReturn /\ crashed' = FALSE
           ELSE /\ cur' = c /\ m' = r /\ pcStart' = "sr_post"
                /\ tickersOn' = tickersOn /\ crashed' = FALSE
  /\ lateCycle' = (lateCycle \/ StopSaved)
  /\ UNCHANGED << store, uploads, baseline, stopClosed, doneClosed, pcStop,
                  stopM, posts,
                  graceStop, writesSinceStop >>
  /\ histUnchanged /\ UNCHANGED mergeVars
  /\ UNCHANGED << resp, lateStart >>

\* SendReportPost with the report also written to the store.
SendReportPostPersists ==
  /\ ~crashed /\ pcStart = "sr_post"
  /\ posts' = posts + 1
  /\ resp' \in {"nil", "ok", "bad_body"}
  /\ store' = SaveAnalytics(m)
  /\ pcStart' = "sr_resp"
  /\ UNCHANGED << uploads, baseline, stopClosed, doneClosed, pcStop, m, cur,
                  stopM, tickersOn, crashed, graceStop, writesSinceStop,
                  lateCycle >>
  /\ histUnchanged /\ UNCHANGED mergeVars
  /\ UNCHANGED lateStart

\* sendReport, line 184: s.httpClient.Post is issued and returns: a transport
\* error with no response ("nil"), or a response whose body can ("ok") or
\* cannot ("bad_body") be read to the end.
SendReportPost ==
  /\ ~crashed /\ pcStart = "sr_post"
  /\ posts' = posts + 1
  /\ resp' \in {"nil", "ok", "bad_body"}
  /\ pcStart' = "sr_resp"
  /\ UNCHANGED << store, uploads, baseline, stopClosed, doneClosed, pcStop, m,
                  cur, stopM, tickersOn, crashed, graceStop, writesSinceStop,
                  lateCycle >>
  /\ histUnchanged /\ UNCHANGED mergeVars
  /\ UNCHANGED lateStart

\* SendReportResp with a return after the transport error as well: only a
\* response that was read counts.
SendReportRespReturnsOnError ==
  /\ ~crashed /\ pcStart = "sr_resp"
  /\ uploads' = IF resp = "ok" THEN uploads + 1 ELSE uploads
  /\ resp' = "none"
  /\ SendReportReturn
  /\ UNCHANGED << store, baseline, stopClosed, doneClosed, pcStop, stopM,
                  posts, crashed, graceStop, writesSinceStop, lateCycle >>
  /\ histUnchanged /\ UNCHANGED mergeVars
  /\ UNCHANGED lateStart

\* SendReportResp with a retry: after a transport error the request is
\* issued again.
SendReportRespRetries ==
  /\ ~crashed /\ pcStart = "sr_resp"
  /\ IF resp = "nil" /\ posts <= MaxUploads
     THEN /\ pcStart' = "sr_post"
          /\ UNCHANGED << uploads, m, cur, tickersOn >>
     ELSE /\ uploads' = IF resp = "bad_body" THEN uploads ELSE uploads + 1
          /\ SendReportReturn
  /\ resp' = "none"
  /\ UNCHANGED << store, baseline, stopClosed, doneClosed, pcStop, stopM,
                  posts, crashed, graceStop, writesSinceStop, lateCycle >>
  /\ histUnchanged /\ UNCHANGED mergeVars
  /\ UNCHANGED lateStart

\* sendReport, line 185-196: a transport error (resp = nil) is logged and
\* falls through to s.uploads++; a failed read of the body returns before it.
SendReportResp ==
  /\ ~crashed /\ pcStart = "sr_resp"
  /\ uploads' = IF resp = "bad_body" THEN uploads ELSE uploads + 1
  /\ resp' = "none"
  /\ SendReportReturn
  /\ UNCHANGED << store, baseline, stopClosed, doneClosed, pcStop, stopM,
                  posts, crashed,
                  graceStop, writesSinceStop, lateCycle >>
  /\ histUnchanged /\ UNCHANGED mergeVars
  /\ UNCHANGED lateStart

\* Loop, line 90-91: the upload ticker fires and the select takes <-ticker.C;
\* sendReport is called.
LoopTicker ==
  /\ ~crashed /\ pcStart = "loop" /\ posts <= MaxUploads
  /\ pcStart' = "sr_build"
  /\ UNCHANGED << store, uploads, baseline, stopClosed, doneClosed, pcStop, m,
                  cur, stopM, tickersOn, posts,
                  crashed, graceStop, writesSinceStop, lateCycle >>
  /\ histUnchanged /\ UNCHANGED mergeVars
  /\ UNCHANGED << resp, lateStart >>

\* LoopSnapshot with the counters added to the last persisted snapshot
\* instead of being merged with the baseline.
LoopSnapshotChained ==
  /\ ~crashed /\ pcStart = "loop"
  /\ \E e \in EnvSamples :
       LET c == getAnalytics(e, uploads)
           last == IF store = Absent THEN ZeroAnalytics ELSE ReadAnalytics(store)
       IN  /\ cur' = c
           /\ m' = [ f \in FieldSet |->
                       IF f \in CounterFields THEN last[f] + c[f] ELSE c[f] ]
           /\ pcStart' = "snap_save"
           /\ crashed' = FALSE
  /\ lateCycle' = (lateCycle \/ StopSaved)
  /\ UNCHANGED << store, uploads, baseline, stopClosed, doneClosed, pcStop,
                  stopM, tickersOn, posts, graceStop, writesSinceStop >>
  /\ histUnchanged /\ UNCHANGED mergeVars
  /\ UNCHANGED << resp, lateStart >>

\* Loop, line 92-94: the snapshot ticker fires and the select takes
\* <-snapshot.C; build and merge.
LoopSnapshot ==
  /\ ~crashed /\ pcStart = "loop"
  /\ \E e \in EnvSamples :
       LET c == getAnalytics(e, uploads)
           r == mergeAnalytics(baseline, c)
       IN  IF r = Panicked
           THEN /\ crashed' = TRUE /\ pcStart' = "panicked"
                /\ m' = m /\ cur' = c
           ELSE /\ cur' = c /\ m' = r /\ pcStart' = "snap_save"
                /\ crashed' = FALSE
  /\ lateCycle' = (lateCycle \/ StopSaved)
  /\ UNCHANGED << store, uploads, baseline, stopClosed, doneClosed, pcStop,
                  stopM, tickersOn, posts, graceStop,
                  writesSinceStop >>
  /\ histUnchanged /\ UNCHANGED mergeVars
  /\ UNCHANGED << resp, lateStart >>

\* SnapshotSave with the merged snapshot kept as the new baseline.
SnapshotSaveReplacesBaseline ==
  /\ ~crashed /\ pcStart = "snap_save"
  /\ store' = SaveAnalytics(m)
  /\ baseline' = m
  /\ writesSinceStop' = CountWrite
  /\ pcStart' = "loop"
  /\ m' = Nil /\ cur' = Nil
  /\ UNCHANGED << uploads, stopClosed, doneClosed, pcStop, stopM, tickersOn,
                  posts, crashed, graceStop, lateCycle >>
  /\ histUnchanged /\ UNCHANGED mergeVars
  /\ UNCHANGED << resp, lateStart >>

\* Loop, line 95: s.s.SaveAnalytics(m).
SnapshotSave ==
  /\ ~crashed /\ pcStart = "snap_save"
  /\ store' = SaveAnalytics(m)
  /\ writesSinceStop' = CountWrite
  /\ pcStart' = "loop"
  /\ m' = Nil /\ cur' = Nil
  /\ UNCHANGED << uploads, baseline, stopClosed, doneClosed, pcStop, stopM,
                  tickersOn, posts,
                  crashed, graceStop, lateCycle >>
  /\ histUnchanged /\ UNCHANGED mergeVars
  /\ UNCHANGED << resp, lateStart >>

\* LoopStop without the return of line 97: the loop goes on.
LoopStopKeepsLooping ==
  /\ ~crashed /\ pcStart = "loop" /\ stopClosed
  /\ UNCHANGED vars

\* Loop, line 96-97: the select takes <-s.stop and Start returns.
LoopStop ==
  /\ ~crashed /\ pcStart = "loop" /\ stopClosed
  /\ StartReturn
  /\ UNCHANGED << store, uploads, baseline, stopClosed, pcStop, m, cur, stopM,
                  posts, crashed,
                  graceStop, writesSinceStop, lateCycle >>
  /\ histUnchanged /\ UNCHANGED mergeVars
  /\ UNCHANGED << resp, lateStart >>

\* ------------------------------------------------------------- Service.Stop
\* Stop, line 125 (argument): s.getAnalytics() in the caller's goroutine.  The
\* read of s.uploads is not synchronised with sendReport's s.uploads++; it
\* sees the counter before or after the increment, as the steps interleave.
StopBuild ==
  /\ ~crashed /\ pcStop = "idle"
  /\ \E e \in EnvSamples : stopM' = getAnalytics(e, uploads)
  /\ stopAt' = Phase
  /\ pcStop' = "save"
  /\ UNCHANGED << store, uploads, baseline, stopClosed, doneClosed, pcStart, m,
                  cur, tickersOn, posts, crashed, run, graceStop,
                  writesSinceStop, lateCycle, prevBaseline, prevStopM, resp,
                  lateStart >>
  /\ UNCHANGED mergeVars

\* Stop, line 125: s.s.SaveAnalytics of the snapshot just built.
StopSave ==
  /\ ~crashed /\ pcStop = "save"
  /\ store' = SaveAnalytics(stopM)
  /\ writesSinceStop' = CountWrite
  /\ pcStop' = "close"
  /\ UNCHANGED << uploads, baseline, stopClosed, doneClosed, pcStart, m, cur,
                  stopM, tickersOn, posts, crashed, graceStop, lateCycle >>
  /\ histUnchanged /\ UNCHANGED mergeVars
  /\ UNCHANGED << resp, lateStart >>

\* Stop, line 126: close(s.stop).
StopClose ==
  /\ ~crashed /\ pcStop = "close"
  /\ stopClosed' = TRUE
  /\ pcStop' = "wait"
  /\ UNCHANGED << store, uploads, baseline, doneClosed, pcStart, m, cur, stopM,
                  tickersOn, posts,
                  crashed, graceStop, writesSinceStop, lateCycle >>
  /\ histUnchanged /\ UNCHANGED mergeVars
  /\ UNCHANGED << resp, lateStart >>

\* StopWait without the receive from s.done.
StopWaitNoReceive ==
  /\ ~crashed /\ pcStop = "wait"
  /\ pcStop' = "returned"
  /\ UNCHANGED << store, uploads, baseline, stopClosed, doneClosed, pcStart, m,
                  cur, stopM, tickersOn, posts, crashed, graceStop,
                  writesSinceStop, lateCycle >>
  /\ histUnchanged /\ UNCHANGED mergeVars
  /\ UNCHANGED << resp, lateStart >>

\* Stop, line 127: <-s.done, then Stop returns.
StopWait ==
  /\ ~crashed /\ pcStop = "wait" /\ doneClosed
  /\ pcStop' = "returned"
  /\ UNCHANGED << store, uploads, baseline, stopClosed, doneClosed, pcStart, m,
                  cur, stopM, tickersOn, posts, crashed, graceStop, writesSinceStop,
                  lateCycle >>
  /\ histUnchanged /\ UNCHANGED mergeVars
  /\ UNCHANGED << resp, lateStart >>

\* ------------------------------------------------------------------ restart
\* After a graceful stop the server process ends; a new process on the same
\* storage constructs a new Service (NewService, line 47-61).
Restart ==
  /\ ~crashed /\ pcStop = "returned" /\ run < MaxRuns
  /\ run' = run + 1
  /\ prevBaseline' = Counters(baseline) /\ prevStopM' = Counters(stopM)
  /\ uploads' = 0 /\ baseline' = Nil
  /\ stopClosed' = FALSE /\ doneClosed' = FALSE
  /\ pcStart' = "init" /\ pcStop' = "idle"
  /\ m' = Nil /\ cur' = Nil /\ stopM' = Nil
  /\ tickersOn' = FALSE
  /\ posts' = 0
  /\ stopAt' = "none" /\ graceStop' = FALSE /\ writesSinceStop' = 0
  /\ lateCycle' = FALSE
  /\ resp' = "none" /\ lateStart' = FALSE
  /\ UNCHANGED << store, crashed >>
  /\ UNCHANGED mergeVars

Next ==
  \/ StartRead \/ StartReadAbsent \/ GraceStop \/ GraceTimer
  \/ SendReportBuild \/ SendReportPost \/ SendReportResp
  \/ LoopTicker \/ LoopSnapshot \/ SnapshotSave \/ LoopStop
  \/ StopBuild \/ StopSave \/ StopClose \/ StopWait
  \/ Restart

Spec == Init /\ [][Next]_vars

\* Scheduling: a statement that can run does run (every call of Stop and of
\* the loop's cycles terminates), and a select that keeps finding s.stop
\* closed takes that case in the end, whatever else is ready.
Fairness ==
  /\ WF_vars(StopSave) /\ WF_vars(StopClose) /\ WF_vars(StopWait)
  /\ WF_vars(SendReportBuild) /\ WF_vars(SendReportPost)
  /\ WF_vars(SendReportResp) /\ WF_vars(SnapshotSave)
  /\ SF_vars(GraceStop) /\ SF_vars(LoopStop)

SpecLive == Spec /\ Fairness


\* ------------------------------------------------ mergeAnalytics on its own
\* A snapshot with its counter fields replaced by those of c.
WithCounters(a, c) ==
  [ f \in FieldSet |-> IF f \in CounterFields THEN c[f] ELSE a[f] ]

CounterMaps == [ CounterFields -> 0..MaxCnt ]

\* Baselines as ReadAnalytics returns them: the zero value, a stored snapshot
\* read back, any combination of counter values, and {BadgerMain: 10}.
MergeBaselines ==
  { ReadAnalytics(SaveAnalytics(getAnalytics(e, 0))) : e \in EnvSamples }
    \cup { WithCounters(ZeroAnalytics, c) : c \in CounterMaps }
    \cup { [ZeroAnalytics EXCEPT !["BadgerMain"] = 10] }

\* Snapshots as getAnalytics builds them, with any combination of counter
\* values, and {BadgerMain: 3, AppsCount: 7}.
MergeCurrents ==
  { WithCounters(getAnalytics(e, 0), c) : e \in EnvSamples, c \in CounterMaps }
    \cup { [ZeroAnalytics EXCEPT !["BadgerMain"] = 3, !["AppsCount"] = 7] }

InitMerge ==
  /\ store = Absent
  /\ NewService
  /\ pcStart = "init" /\ pcStop = "idle"
  /\ m = Nil /\ cur = Nil /\ stopM = Nil
  /\ tickersOn = FALSE
  /\ posts = 0 /\ crashed = FALSE /\ run = 1
  /\ stopAt = "none" /\ graceStop = FALSE /\ writesSinceStop = 0
  /\ lateCycle = FALSE
  /\ prevBaseline = Nil /\ prevStopM = Nil
  /\ resp = "none" /\ lateStart = FALSE
  /\ mB \in MergeBaselines /\ mC \in MergeCurrents
  /\ mRet = Nil /\ mPc = "ready"

\* The call mergeAnalytics(mB, mC).
MergeCall ==
  /\ mPc = "ready"
  /\ mRet' = mergeAnalytics(mB, mC)
  /\ mPc' = "done"
  /\ UNCHANGED << mB, mC >>
  /\ UNCHANGED serviceVars

NextMerge == MergeCall

SpecMerge == InitMerge /\ [][NextMerge]_vars

\* ================================================================== claims

\* C1 (as claimed): merge additivity.  For every baseline B and built
\* snapshot C, every counter field f of mergeAnalytics(B, C) is B.f + C.f.
C1_MergeAdditivity ==
  mPc = "done" =>
    /\ mRet # Panicked
    /\ \A f \in CounterFields : mRet[f] = mB[f] + mC[f]

\* C2 (as claimed): merge pass-through.  Every field g that is not tagged as
\* a counter has mergeAnalytics(B, C).g = C.g, whatever B.g is.
C2_MergePassThrough ==
  mPc = "done" =>
    /\ mRet # Panicked
    /\ \A g \in GaugeFields : mRet[g] = mC[g]

\* C3 (as claimed): every write to the store, by the snapshot tick or by
\* Stop, stores baseline.f + current.f in each counter field f, where current
\* is the snapshot built in the same cycle.
C3_WritesAreMerged ==
  [][ /\ (pcStart = "snap_save" /\ pcStart' = "loop") =>
           \A f \in CounterFields :
             ReadAnalytics(store')[f] = baseline[f] + cur[f]
      /\ (pcStop = "save" /\ pcStop' = "close" /\ baseline # Nil) =>
           \A f \in CounterFields :
             ReadAnalytics(store')[f] = baseline[f] + stopM[f] ]_vars

\* C4 (as claimed): when Stop is invoked while the controller is in
\* AwaitingGrace, no upload occurs in the run and exactly one persistence
\* write happens between Stop's invocation and its return.
C4_StopInvokedDuringGrace ==
  stopAt = "AwaitingGrace" =>
    /\ posts = 0
    /\ writesSinceStop <= 1
    /\ (pcStop = "returned" => writesSinceStop = 1)

\* C4 (amended): when Start's grace-period select takes the stop case, no
\* upload occurs in the run and exactly one persistence write (Stop's own)
\* has happened since Stop was invoked, up to and including Stop's return.
C4_StopObservedDuringGrace ==
  graceStop => /\ posts = 0
               /\ writesSinceStop = 1
               /\ pcStart = "returned"

C4_Witness == graceStop /\ pcStop = "returned" /\ stopAt = "AwaitingGrace"

\* C5 (as claimed): when Stop is invoked while the controller is Running,
\* the final persist cycle does not overlap the cycle in flight, and no
\* upload or persistence cycle is started after the final persist.
C5_StopWhileRunning ==
  stopAt = "Running" =>
    /\ ~(StopCycleActive /\ LoopCycleActive)
    /\ ~lateCycle
    /\ (pcStop = "returned" => writesSinceStop = 1)

C7_FinalSnapshotSurvives ==
  pcStop = "returned" => store = SaveAnalytics(stopM)

\* C8 (as claimed): no two cycles are in progress at the same time.
C8_NoOverlap == ~(LoopCycleActive /\ StopCycleActive)

\* C9: the baseline is assigned once per run, by Start's first statement,
\* from what the store holds, and no later step of the run changes it.
C9_BaselineSetOnce ==
  [][ /\ (pcStart = "init" /\ pcStart' = "grace") =>
           baseline' = IF store = Absent THEN ZeroAnalytics
                       ELSE jsonUnmarshal(store)
      /\ (pcStart' = "init" /\ run' = run) => baseline' = Nil
      /\ (pcStart # "init" /\ run' = run) => baseline' = baseline ]_vars

C9_Witness ==
  /\ pcStop = "returned" /\ baseline # Nil /\ baseline # ZeroAnalytics
  /\ posts > 0 /\ writesSinceStop = 2

\* C10 (as claimed): after a graceful stop and a restart on the same
\* storage, each counter field of the new baseline is the previous baseline's
\* value plus the value Stop's final snapshot had.
C10_CountersAccumulate ==
  (run > 1 /\ baseline # Nil /\ prevBaseline # Nil) =>
    \A f \in CounterFields : baseline[f] = prevBaseline[f] + prevStopM[f]


\* C11: merges do not chain.  The merged snapshot a cycle holds is
\* mergeAnalytics of the run's baseline and of the snapshot built in that
\* cycle, whatever earlier cycles produced or stored.
C11_MergesDoNotChain ==
  pcStart \in {"sr_post", "sr_resp", "snap_save"} =>
    m = mergeAnalytics(baseline, cur)

C11_Witness ==
  /\ pcStart = "snap_save" /\ posts >= 1
  /\ baseline["BadgerMain"] > 0 /\ cur["BadgerMain"] > 0

\* C12: mergeAnalytics is total and has no side effect.  Every call returns a
\* snapshot (no panic), and its two arguments are as they were.
C12_MergeTotalAndPure ==
  [][ mPc' = "done" =>
        /\ mRet' # Panicked
        /\ DOMAIN mRet' = FieldSet
        /\ mB' = mB /\ mC' = mC ]_vars

C12_Witness == mPc = "done" /\ mB = ZeroAnalytics /\ mC["BadgerMain"] > 0

\* C13 (as claimed): the upload counter never decreases, every upload cycle
\* that issued its POST leaves it one greater, whatever the outcome, and a
\* persistence cycle leaves it unchanged.
C13_UploadsCountEveryAttempt ==
  [][ run' = run =>
        /\ uploads' >= uploads
        /\ (pcStart = "sr_resp" /\ pcStart' # "sr_resp") => uploads' = uploads + 1
        /\ pcStart # "sr_resp" => uploads' = uploads ]_vars

\* C13 (amended): the upload counter never decreases; an upload cycle that
\* issued its POST leaves it one greater, except when the response body could
\* not be read, which leaves it unchanged; nothing else changes it.
C13_UploadsCountUnlessBodyUnread ==
  [][ run' = run =>
        /\ uploads' >= uploads
        /\ (pcStart = "sr_resp" /\ pcStart' # "sr_resp") =>
             uploads' = IF resp = "bad_body" THEN uploads ELSE uploads + 1
        /\ pcStart # "sr_resp" => uploads' = uploads ]_vars

C13_Witness == pcStart = "loop" /\ posts = 1 /\ uploads = 1

\* C14 (as claimed): the snapshot handed to the Reporter carries the upload
\* index of the build, which is the upload counter's value.
C14_ReportedUploadIndex ==
  pcStart \in {"sr_post", "sr_resp"} =>
    /\ cur["UploadIndex"] = uploads
    /\ m["UploadIndex"] = cur["UploadIndex"]

\* C15: one call of sendReport issues at most one POST (none after a Marshal
\* error) and always returns to the loop, whatever the request's outcome; it
\* is never repeated.
C15_ReportFailuresStayLocal ==
  [][ run' = run =>
        /\ posts' # posts =>
             (pcStart = "sr_post" /\ pcStart' = "sr_resp" /\ posts' = posts + 1)
        /\ (pcStart = "sr_build" /\ pcStart' # "sr_build") =>
             (pcStart' \in {"sr_post", "loop"} /\ ~crashed')
        /\ (pcStart = "sr_resp" /\ pcStart' # "sr_resp") =>
             (pcStart' = "loop" /\ ~crashed' /\ tickersOn' /\ m' = Nil) ]_vars

C15_Witness == pcStart = "loop" /\ posts >= 1 /\ uploads < posts

\* C16 (as claimed): ReadAnalytics on a store that never held a snapshot
\* returns the zero snapshot without faulting, and Start goes on to
\* AwaitingGrace with an all-zero baseline.
C16_ReadOfEmptyStore ==
  [][ (pcStart = "init" /\ store = Absent /\ pcStart' # "init") =>
        (baseline' = ZeroAnalytics /\ pcStart' = "grace" /\ ~crashed') ]_vars

\* C17: while Stop has not been invoked, nothing is uploaded or written
\* before the grace timer is taken, the first thing done after it is the
\* sendReport of line 84, and the tickers exist, and any loop cycle is
\* handled, only after that call has returned.
C17_FirstCycleIsUpload ==
  [][ (stopAt' = "none" /\ run' = run) =>
        /\ pcStart \in {"init", "grace"} =>
             (store' = store /\ posts' = posts /\ ~tickersOn')
        /\ (pcStart = "grace" /\ pcStart' # "grace") => pcStart' = "sr_build"
        /\ (~tickersOn /\ tickersOn') =>
             (pcStart \in {"sr_build", "sr_resp"} /\ pcStart' = "loop")
        /\ pcStart' \in {"loop", "snap_save"} => tickersOn' ]_vars

C17_Witness == stopAt = "none" /\ pcStart = "snap_save" /\ posts = 1

\* C18: an upload cycle writes nothing to the store, a persistence cycle
\* issues no request and does not count as an upload, and neither changes the
\* baseline.
C18_DisjointEffects ==
  [][ /\ (pcStart \in {"sr_build", "sr_post", "sr_resp"} /\ pcStart' # pcStart) =>
           (store' = store /\ baseline' = baseline)
      /\ (\/ pcStart = "loop" /\ pcStart' = "snap_save"
          \/ pcStart = "snap_save" /\ pcStart' = "loop") =>
           (posts' = posts /\ uploads' = uploads /\ baseline' = baseline) ]_vars

C18_Witness ==
  /\ stopAt = "none" /\ pcStart = "loop" /\ posts >= 1
  /\ baseline # Nil /\ baseline # ZeroAnalytics
  /\ store = SaveAnalytics(ZeroAnalytics)

\* C19: once Start is running and Stop has been invoked, Start returns and
\* closes done, and Stop returns.
C19_StopTerminates ==
  (pcStop = "save" /\ pcStart \in {"grace", "sr_build", "sr_post", "sr_resp",
                                  "loop", "snap_save"})
    ~> (pcStop = "returned" /\ pcStart = "returned" /\ doneClosed)

C19_Witness ==
  pcStop = "returned" /\ pcStart = "returned" /\ doneClosed /\ lateCycle

\* C20 (as claimed): done is closed only by Start; a Stop whose Start has not
\* run does not return; a Start that begins after such a Stop has closed
\* s.stop loads the baseline and returns with no upload and no persistence
\* cycle.
C20_StartAfterStop ==
  /\ doneClosed => pcStart = "returned"
  /\ pcStart = "init" => pcStop # "returned"
  /\ (pcStart = "init" /\ pcStop = "wait") =>
       (stopClosed /\ writesSinceStop = 1 /\ ~doneClosed)
  /\ lateStart =>
       /\ pcStart \in {"grace", "returned"}
       /\ baseline # Nil /\ posts = 0 /\ writesSinceStop = 1

\* C20 (amended): as claimed, for a Start whose grace-period select takes the
\* stop case; such a Start has loaded the baseline, has done no upload and no
\* persistence cycle, and has closed done, which releases Stop.
C20_StartAfterStopTakesStop ==
  /\ doneClosed => pcStart = "returned"
  /\ pcStart = "init" => pcStop # "returned"
  /\ (pcStart = "init" /\ pcStop = "wait") =>
       (stopClosed /\ writesSinceStop = 1 /\ ~doneClosed)
  /\ (lateStart /\ graceStop) =>
       /\ pcStart = "returned" /\ doneClosed
       /\ baseline # Nil /\ posts = 0 /\ writesSinceStop = 1

C20_Witness == lateStart /\ graceStop /\ pcStop = "returned" /\ stopAt = "Idle"

====
